---- MODULE Spec2Model ----
(***************************************************************************)
(* AuthorMate (hellomada/NovelEditor): the document edit pipeline of the   *)
(* two chunking variants of the App component.                             *)
(*   variant "A": src/unnamed/part_000  (length gate in handleRun)         *)
(*   variant "B": src/src/App.jsx, component App at lines 283-743          *)
(*                (prompt enhancement, length gate inside                  *)
(*                 processDocumentWithSafety)                              *)
(* A text is a sequence of one-character strings.  Event handlers run to   *)
(* their first pending await; the continuation after a fetch runs to the   *)
(* next fetch or to the end of handleRun (promise continuations are        *)
(* microtasks, user events are tasks, so no user event falls in between).  *)
(*                                                                         *)
(* Specifications:                                                         *)
(*   Spec         the run pipeline under every interleaving of the edits   *)
(*                of key, prompt, flag and pasted text, clear and revise;  *)
(*   UploadSpec   the ingestion handlers (file uploads step by step, the   *)
(*                two textareas) and clear;                                *)
(*   SessionSpec  all handlers together on fewer inputs, the inputs being  *)
(*                edited only while no run and no upload is in progress;   *)
(*   LiveSpec     the run pipeline on a two-word document with the edits   *)
(*                of key, prompt and text and clear, under weak fairness   *)
(*                of the settlement of a pending fetch;                    *)
(*   OverlapSpec  PDF uploads begun while earlier ones are being read;     *)
(*   SplitSpec    splitIntoChunksByWords as a function.                    *)
(* The view cell (landing or editor page) is left out: it changes what is  *)
(* rendered, not what a handler does.                                      *)
(***************************************************************************)
EXTENDS Integers, Sequences, FiniteSets, TLC

(***************************************************************************)
(* Bounds of the model.  PageChars, MaxPages and ChunkWords stand for the  *)
(* program's 2000 characters per page, 15 pages and 3500 words per chunk,  *)
(* scaled down so that documents of a few characters reach them.           *)
(***************************************************************************)
MaxDocWords == 3
MaxReviseLen == 5
PageChars == 2
MaxPages == 2
ChunkWords == 1
MaxOutWords == 2
MaxSplitLen == 6
MaxSplitWords == 3
MaxUploads == 1
MaxOverlap == 2

VARIABLES
    variant,                \* which component is running: "A" or "B"
    apiKey, rawText, pages, prompt, responseText, loading, error,
    allowMajor, lastRequestWordCount,   \* the useState cells
    run,                    \* the handleRun invocation in progress
    inflight,               \* completion requests sent and not yet answered
    last,                   \* the handler that ran last, and how a run ended
    split,                  \* input and result of a splitIntoChunksByWords call
    filename, model,        \* the useState cells of the file name and the model
    uploads                 \* the handleFileChange invocations in progress

vars == <<variant, apiKey, rawText, pages, prompt, responseText, loading, error,
          allowMajor, lastRequestWordCount, run, inflight, last, split,
          filename, model, uploads>>

----------------------------------------------------------------------------
(* Texts *)

WS == {" ", "\n"}
Chars == {"a", " ", "\n"}

EmptyText == << >>
NoText == <<"null">>          \* the null a failed callOpenAI returns

SeqsUpTo(S, n) == UNION {[1..k -> S] : k \in 0..n}

\* k words "a" separated by single spaces
RECURSIVE WordsText(_)
WordsText(k) ==
    IF k = 0 THEN EmptyText
    ELSE IF k = 1 THEN <<"a">>
    ELSE WordsText(k - 1) \o <<" ", "a">>

\* the documents a user pastes: k words, blank text, a word and a trailing blank
Docs == {WordsText(k) : k \in 0..MaxDocWords} \cup {<<" ">>, <<"a", " ">>}
Outs == {WordsText(k) : k \in 0..MaxOutWords}
Prompts == {EmptyText, <<"p">>}
EnhancedPrompts == {EmptyText, <<"q">>}
Keys == {EmptyText, <<"k">>}

\* one word too long for MaxPages pages
OversizeText == [k \in 1..(PageChars * MaxPages + 1) |-> "a"]

\* the inputs of the whole-session specification: fewer texts, more handlers
SessionDocs == {EmptyText, <<"a">>, OversizeText}
SessionOuts == {<<"a">>}
SessionEnhanced == {<<"q">>}
FileTexts == {<<"a">>, OversizeText}
PdfNames == {"f.pdf", "g.pdf"}
TextNames == {"t.txt"}
SessionFiles == {"f.pdf", "t.txt"}
\* the documents of the specification with fairness: none, or two words
LiveDocs == {EmptyText, <<"a", " ", "a">>}

\* String.prototype.trim
RECURSIVE TrimLeft(_)
TrimLeft(s) ==
    IF s # << >> /\ Head(s) \in WS THEN TrimLeft(Tail(s)) ELSE s

RECURSIVE TrimRight(_)
TrimRight(s) ==
    IF s # << >> /\ s[Len(s)] \in WS THEN TrimRight(SubSeq(s, 1, Len(s) - 1)) ELSE s

Trim(s) == TrimRight(TrimLeft(s))

\* index of the first whitespace character of s, 0 when there is none
RECURSIVE FirstWS(_, _)
FirstWS(s, i) ==
    IF i > Len(s) THEN 0
    ELSE IF s[i] \in WS THEN i
    ELSE FirstWS(s, i + 1)

\* s.split(/\s+/): the pieces between maximal runs of whitespace; a leading or
\* trailing run leaves an empty piece at that end, and "" gives [""]
RECURSIVE SplitWS(_)
SplitWS(s) ==
    LET i == FirstWS(s, 1) IN
    IF i = 0 THEN <<s>>
    ELSE <<SubSeq(s, 1, i - 1)>> \o SplitWS(TrimLeft(SubSeq(s, i, Len(s))))

\* array.filter(Boolean) on an array of strings
FilterBoolean(ws) == SelectSeq(ws, LAMBDA w : w # EmptyText)

\* array.slice(from, to) with 0-based from (inclusive) and to (exclusive)
Slice(ws, from, to) ==
    SubSeq(ws, from + 1, IF to < Len(ws) THEN to ELSE Len(ws))

\* array.join(sep)
RECURSIVE Join(_, _)
Join(ws, sep) ==
    IF ws = << >> THEN EmptyText
    ELSE IF Len(ws) = 1 THEN ws[1]
    ELSE ws[1] \o sep \o Join(Tail(ws), sep)

\* s.trim().split(/\s+/).filter(Boolean): the words wordCount counts
Words(s) == FilterBoolean(SplitWS(Trim(s)))

wordCount(s) ==
    IF s = EmptyText THEN 0
    ELSE Len(Words(s))

\* ChunkLoop with the index advanced one word too far after each slice
RECURSIVE ChunkLoopSkipsWord(_, _, _)
ChunkLoopSkipsWord(words, idx, maxWordsPerChunk) ==
    IF idx < Len(words)
    THEN <<Join(Slice(words, idx, idx + maxWordsPerChunk), <<" ">>)>>
            \o ChunkLoopSkipsWord(words, idx + maxWordsPerChunk + 1, maxWordsPerChunk)
    ELSE << >>

\* the while loop of splitIntoChunksByWords
RECURSIVE ChunkLoop(_, _, _)
ChunkLoop(words, idx, maxWordsPerChunk) ==
    IF idx < Len(words)
    THEN <<Join(Slice(words, idx, idx + maxWordsPerChunk), <<" ">>)>>
            \o ChunkLoop(words, idx + maxWordsPerChunk, maxWordsPerChunk)
    ELSE << >>

splitIntoChunksByWords(text, maxWordsPerChunk) ==
    IF text = EmptyText THEN << >>
    ELSE LET words == SplitWS(text) IN
         IF Len(words) <= maxWordsPerChunk THEN <<text>>
         ELSE ChunkLoop(words, 0, maxWordsPerChunk)

----------------------------------------------------------------------------
(* Messages shown in the error cell.  "" is no error. *)

NoError == ""
ErrNoDocument == "No document text provided."
ErrTooLarge == "Document exceeds 15 pages."
ErrNoPrompt == "Please enter a prompt."
ErrMissingKey == "Please provide your OpenAI API key."
ErrEndpoint == "OpenAI error"
ErrShortening == "AI output is significantly shorter than the original."
ErrPasteTooLarge == "Pasted text seems longer than 15 pages."
ErrPdfTooLarge == "PDF has more than 15 pages."
ErrPdfParse == "Failed to read PDF."
ErrFileTooLarge == "File estimate exceeds 15 pages."

EmptyInput == {ErrNoDocument, ErrNoPrompt}

NoFile == ""
DefaultModel == "gpt-4o-mini"
Models == {"gpt-4o-mini", "gpt-4o", "gpt-4o-mini-vision"}

----------------------------------------------------------------------------
(* The run: one invocation of handleRun, from the click to its return. *)

IdleRun ==
    [pc |-> "idle", documentText |-> EmptyText, userPrompt |-> EmptyText,
     allowMajorRewriteFlag |-> FALSE, key |-> EmptyText, inputWords |-> 0,
     totalWords |-> 0, enhancedPrompt |-> EmptyText, chunks |-> << >>, i |-> 0,
     outputs |-> << >>, out |-> NoText, reqLog |-> << >>, respLog |-> << >>,
     gateEvals |-> 0, hadResult |-> FALSE]

\* no handleFileChange invocation: the value of last.up after any other handler
NoUpload ==
    [kind |-> "none", name |-> NoFile, pc |-> "idle", numPages |-> 0, i |-> 0,
     text |-> EmptyText, renamed |-> FALSE, repaged |-> FALSE, outcome |-> "none"]

\* the cells a handler writes, as one record
Cells ==
    [error |-> error, responseText |-> responseText, loading |-> loading,
     lastRequestWordCount |-> lastRequestWordCount, run |-> run,
     inflight |-> inflight, outcome |-> "pending", ended |-> IdleRun]

Commit(m, op) ==
    \E c \in {m} :
        /\ error' = c.error
        /\ responseText' = c.responseText
        /\ loading' = c.loading
        /\ lastRequestWordCount' = c.lastRequestWordCount
        /\ run' = c.run
        /\ inflight' = c.inflight
        /\ last' = [op |-> op, outcome |-> c.outcome, ended |-> c.ended, up |-> NoUpload]

\* handleRun returns: the run is over
EndRun(m, outcome) ==
    [m EXCEPT !.outcome = outcome, !.ended = m.run, !.run = IdleRun]

\* Math.floor for Math.ceil
approxPagesFloor(t) == Len(t) \div PageChars

\* Math.ceil(length / 2000)
approxPages(t) == (Len(t) + PageChars - 1) \div PageChars

\* buildMessages on chunkDoc: the user message of the request for chunk idx
buildMessages(r, idx) ==
    [kind |-> "segment", seg |-> idx, of |-> Len(r.chunks),
     header |-> Len(r.chunks) > 1, documentText |-> r.chunks[idx],
     task |-> r.enhancedPrompt, allow |-> r.allowMajorRewriteFlag]

\* the messages of enhancePrompt
enhanceMessages(r) ==
    [kind |-> "enhance", seg |-> 0, of |-> 0, header |-> FALSE,
     documentText |-> EmptyText, task |-> r.userPrompt, allow |-> FALSE]

\* ExcessiveShortening with <= for <
ExcessiveShorteningInclusive(allowFlag, outWords, inWords) ==
    ~allowFlag /\ outWords * 10 <= inWords * 9

\* ExcessiveShortening with the flag left out
ExcessiveShorteningIgnoresFlag(allowFlag, outWords, inWords) ==
    outWords * 10 < inWords * 9

\* outWords < inputWords * 0.90.  For word counts up to 50000 the double
\* n * 0.9 equals 9n/10 when that is an integer and lies strictly between
\* its floor and ceiling otherwise, so the integer comparison is exact.
ExcessiveShortening(allowFlag, outWords, inWords) ==
    ~allowFlag /\ outWords * 10 < inWords * 9

\* callOpenAI without setLoading(true)
callOpenAIWithoutLoading(m, req, pc) ==
    IF m.run.key = EmptyText
    THEN [m EXCEPT !.error = ErrMissingKey]
    ELSE [m EXCEPT !.error = NoError,
                   !.inflight = @ \cup {req},
                   !.run.pc = pc, !.run.reqLog = Append(@, req)]

\* callOpenAI without the check of the key
callOpenAISendsWithoutKey(m, req, pc) ==
    [m EXCEPT !.error = NoError, !.loading = TRUE,
              !.inflight = @ \cup {req},
              !.run.pc = pc, !.run.reqLog = Append(@, req)]

\* callOpenAI up to its fetch: null without a key, else the request is sent
callOpenAI(m, req, pc) ==
    IF m.run.key = EmptyText
    THEN [m EXCEPT !.error = ErrMissingKey]
    ELSE [m EXCEPT !.error = NoError, !.loading = TRUE,
                   !.inflight = @ \cup {req},
                   !.run.pc = pc, !.run.reqLog = Append(@, req)]

\* Recombined with a single space as the separator
RecombinedWithSpace(v, r) ==
    IF v = "A" /\ Len(r.chunks) = 1 THEN r.outputs[1]
    ELSE Join(r.outputs, <<" ">>)

\* the value processDocumentWithSafety hands to the gate
Recombined(v, r) ==
    IF v = "A" /\ Len(r.chunks) = 1 THEN r.outputs[1]
    ELSE Join(r.outputs, <<"\n", "\n">>)

\* GateInputWords taken from the last chunk instead of the whole document
GateInputWordsOfLastChunk(v, r) == wordCount(r.chunks[Len(r.chunks)])

\* the word count the gate compares the output with
GateInputWords(v, r) == IF v = "A" THEN r.inputWords ELSE r.totalWords

\* Gate reading the flag from the cell at the time of the gate
GateReadsLiveFlag(v, m) ==
    LET combined == Recombined(v, m.run)
        m1 == [m EXCEPT !.run.out = combined, !.run.gateEvals = @ + 1]
    IN  IF ExcessiveShortening(allowMajor, wordCount(combined),
                               GateInputWords(v, m.run))
        THEN EndRun([m1 EXCEPT !.error = ErrShortening], "Rejected")
        ELSE IF v = "B" /\ combined = EmptyText
        THEN EndRun(m1, "Accepted")
        ELSE EndRun([m1 EXCEPT !.responseText = combined], "Accepted")

\* all outputs are in: recombination, the length gate, setResponseText
Gate(v, m) ==
    LET combined == Recombined(v, m.run)
        m1 == [m EXCEPT !.run.out = combined, !.run.gateEvals = @ + 1]
    IN  IF ExcessiveShortening(m.run.allowMajorRewriteFlag, wordCount(combined),
                               GateInputWords(v, m.run))
        THEN EndRun([m1 EXCEPT !.error = ErrShortening], "Rejected")
        ELSE IF v = "B" /\ combined = EmptyText
        THEN EndRun(m1, "Accepted")
        ELSE EndRun([m1 EXCEPT !.responseText = combined], "Accepted")

\* SendSegment sending every remaining chunk at once
SendAllSegments(v, m) ==
    IF m.run.i > Len(m.run.chunks) THEN Gate(v, m)
    ELSE IF m.run.key = EmptyText
    THEN EndRun([m EXCEPT !.error = ErrMissingKey], "Failed")
    ELSE LET reqs == [k \in 1..(Len(m.run.chunks) - m.run.i + 1) |->
                        buildMessages(m.run, m.run.i + k - 1)]
         IN  [m EXCEPT !.error = NoError, !.loading = TRUE,
                       !.inflight = @ \cup {reqs[k] : k \in 1..Len(reqs)},
                       !.run.pc = "segment", !.run.reqLog = @ \o reqs]

\* one turn of the for loop over the chunks, entered with run.i the next chunk
SendSegment(v, m) ==
    IF m.run.i > Len(m.run.chunks) THEN Gate(v, m)
    ELSE LET m1 == callOpenAI(m, buildMessages(m.run, m.run.i), "segment") IN
         IF m.run.key = EmptyText THEN EndRun(m1, "Failed") ELSE m1

\* processDocumentWithSafety from the chunking on
Dispatch(v, m, enhanced) ==
    SendSegment(v, [m EXCEPT !.run.enhancedPrompt = enhanced,
                             !.run.chunks = splitIntoChunksByWords(m.run.documentText, ChunkWords),
                             !.run.i = 1])

\* enhancedOr without the fallback to the user's prompt
enhancedOrNoFallback(result, userPrompt) == result

\* enhancePrompt's result from what its callOpenAI returned
enhancedOr(result, userPrompt) ==
    IF result = NoText \/ result = EmptyText THEN userPrompt ELSE result

\* processDocumentWithSafety up to its first fetch
processDocumentWithSafety(v, m, documentText, userPrompt, allowMajorRewriteFlag) ==
    LET m1 == [m EXCEPT !.error = NoError, !.responseText = EmptyText,
                        !.lastRequestWordCount = wordCount(documentText),
                        !.run.totalWords = wordCount(documentText),
                        !.run.documentText = documentText,
                        !.run.userPrompt = userPrompt,
                        !.run.allowMajorRewriteFlag = allowMajorRewriteFlag]
    IN  IF v = "A" THEN Dispatch(v, m1, userPrompt)
        ELSE IF userPrompt = EmptyText THEN Dispatch(v, m1, userPrompt)
        ELSE IF m1.run.key = EmptyText
        THEN Dispatch(v, callOpenAI(m1, enhanceMessages(m1.run), "enhance"), userPrompt)
        ELSE callOpenAI(m1, enhanceMessages(m1.run), "enhance")

\* Validate without the check of the prompt
ValidateWithoutPrompt(v, text, pageCount, userPrompt) ==
    IF text = EmptyText THEN ErrNoDocument
    ELSE IF v = "A" /\ pageCount > MaxPages THEN ErrTooLarge
    ELSE NoError

\* the checks at the head of handleRun: the message to fail with, or NoError
Validate(v, text, pageCount, userPrompt) ==
    IF text = EmptyText THEN ErrNoDocument
    ELSE IF v = "A" /\ pageCount > MaxPages THEN ErrTooLarge
    ELSE IF userPrompt = EmptyText THEN ErrNoPrompt
    ELSE NoError

\* handleRunStart without setResponseText("")
handleRunStartKeepsResult(v, m) ==
    LET m0 == [m EXCEPT !.error = NoError,
                        !.run = [IdleRun EXCEPT !.key = apiKey,
                                                !.hadResult = responseText # EmptyText]]
        bad == Validate(v, rawText, pages, prompt)
    IN  IF bad # NoError THEN EndRun([m0 EXCEPT !.error = bad], "Failed")
        ELSE IF v = "A"
        THEN processDocumentWithSafety(v,
                 [m0 EXCEPT !.run.inputWords = wordCount(rawText),
                            !.lastRequestWordCount = wordCount(rawText)],
                 rawText, prompt, allowMajor)
        ELSE processDocumentWithSafety(v, m0, rawText, prompt, allowMajor)

\* handleRun from the click to its first fetch (or to its return); the run
\* notes whether a result was displayed when it began
handleRunStart(v, m) ==
    LET m0 == [m EXCEPT !.error = NoError, !.responseText = EmptyText,
                        !.run = [IdleRun EXCEPT !.key = apiKey,
                                                !.hadResult = responseText # EmptyText]]
        bad == Validate(v, rawText, pages, prompt)
    IN  IF bad # NoError THEN EndRun([m0 EXCEPT !.error = bad], "Failed")
        ELSE IF v = "A"
        THEN processDocumentWithSafety(v,
                 [m0 EXCEPT !.run.inputWords = wordCount(rawText),
                            !.lastRequestWordCount = wordCount(rawText)],
                 rawText, prompt, allowMajor)
        ELSE processDocumentWithSafety(v, m0, rawText, prompt, allowMajor)

\* fetchSettled swallowing a failed call: the run neither goes on nor returns
fetchSettledHangsOnFailure(v, m, req, ok, content) ==
    LET result == IF ok THEN content ELSE NoText
        m1 == [m EXCEPT !.inflight = @ \ {req},
                        !.run.respLog = Append(@, [seg |-> req.seg, ok |-> ok,
                                                   content |-> result])]
    IN  IF req.kind = "enhance"
        THEN Dispatch(v, [m1 EXCEPT !.loading = FALSE],
                      enhancedOr(result, m1.run.userPrompt))
        ELSE IF result = NoText THEN m1
        ELSE SendSegment(v, [m1 EXCEPT !.loading = FALSE,
                                       !.run.outputs = Append(@, result),
                                       !.run.i = @ + 1])

\* fetchSettled handing what it has to the gate after a failed call
fetchSettledGatesPartial(v, m, req, ok, content) ==
    LET result == IF ok THEN content ELSE NoText
        m1 == [m EXCEPT !.error = IF ok THEN @ ELSE ErrEndpoint,
                        !.loading = FALSE,
                        !.inflight = @ \ {req},
                        !.run.respLog = Append(@, [seg |-> req.seg, ok |-> ok,
                                                   content |-> result])]
    IN  IF req.kind = "enhance"
        THEN Dispatch(v, m1, enhancedOr(result, m1.run.userPrompt))
        ELSE IF result = NoText
        THEN Gate(v, [m1 EXCEPT !.run.outputs = Append(@, EmptyText)])
        ELSE SendSegment(v, [m1 EXCEPT !.run.outputs = Append(@, result),
                                       !.run.i = @ + 1])

\* fetchSettled going on to the next chunk after a failed call
fetchSettledKeepsGoing(v, m, req, ok, content) ==
    LET result == IF ok THEN content ELSE NoText
        m1 == [m EXCEPT !.error = IF ok THEN @ ELSE ErrEndpoint,
                        !.loading = FALSE,
                        !.inflight = @ \ {req},
                        !.run.respLog = Append(@, [seg |-> req.seg, ok |-> ok,
                                                   content |-> result])]
    IN  IF req.kind = "enhance"
        THEN Dispatch(v, m1, enhancedOr(result, m1.run.userPrompt))
        ELSE SendSegment(v, [m1 EXCEPT !.run.outputs =
                                          Append(@, IF ok THEN result ELSE EmptyText),
                                       !.run.i = @ + 1])

\* callOpenAI from the fetch's settlement to its return, then the caller's
\* continuation up to the next fetch or the end of handleRun
fetchSettled(v, m, req, ok, content) ==
    LET result == IF ok THEN content ELSE NoText
        m1 == [m EXCEPT !.error = IF ok THEN @ ELSE ErrEndpoint,
                        !.loading = FALSE,
                        !.inflight = @ \ {req},
                        !.run.respLog = Append(@, [seg |-> req.seg, ok |-> ok,
                                                   content |-> result])]
    IN  IF req.kind = "enhance"
        THEN Dispatch(v, m1, enhancedOr(result, m1.run.userPrompt))
        ELSE IF result = NoText THEN EndRun(m1, "Failed")
        ELSE SendSegment(v, [m1 EXCEPT !.run.outputs = Append(@, result),
                                       !.run.i = @ + 1])

----------------------------------------------------------------------------
(* Actions *)

NoSplit == [text |-> EmptyText, maxWordsPerChunk |-> 0, chunks |-> << >>, done |-> FALSE]

Init ==
    /\ variant \in {"A", "B"}
    /\ apiKey = EmptyText
    /\ rawText = EmptyText
    /\ pages = 0
    /\ prompt = EmptyText
    /\ responseText = EmptyText
    /\ loading = FALSE
    /\ error = NoError
    /\ allowMajor = FALSE
    /\ lastRequestWordCount = 0
    /\ run = IdleRun
    /\ inflight = {}
    /\ last = [op |-> "init", outcome |-> "none", ended |-> IdleRun, up |-> NoUpload]
    /\ filename = NoFile
    /\ model = DefaultModel
    /\ uploads = << >>
    /\ split = NoSplit

Touch(op) == last' = [op |-> op, outcome |-> "none", ended |-> IdleRun, up |-> NoUpload]

\* a textarea's onChange ran with e.target.value = t
Pasted(op, t) ==
    last' = [op |-> op, outcome |-> "none", ended |-> IdleRun,
             up |-> [NoUpload EXCEPT !.kind = "paste", !.text = t]]

SetApiKey ==
    /\ \E k \in Keys : k # apiKey /\ apiKey' = k
    /\ Touch("user")
    /\ UNCHANGED <<variant, rawText, pages, prompt, responseText, loading, error,
                   allowMajor, lastRequestWordCount, run, inflight, split,
                   filename, model, uploads>>

SetPrompt ==
    /\ \E p \in Prompts : p # prompt /\ prompt' = p
    /\ Touch("user")
    /\ UNCHANGED <<variant, apiKey, rawText, pages, responseText, loading, error,
                   allowMajor, lastRequestWordCount, run, inflight, split,
                   filename, model, uploads>>

SetAllowMajor ==
    /\ allowMajor' = ~allowMajor
    /\ Touch("user")
    /\ UNCHANGED <<variant, apiKey, rawText, pages, prompt, responseText, loading,
                   error, lastRequestWordCount, run, inflight, split,
                   filename, model, uploads>>

\* the editor's textarea changes to a text of D
PasteFrom(D) ==
    /\ \E t \in D :
         /\ t # rawText
         /\ rawText' = t
         /\ pages' = approxPages(t)
         /\ error' = IF approxPages(t) > MaxPages THEN ErrPasteTooLarge ELSE NoError
         /\ Pasted("handlePasteTextChange", t)
    /\ UNCHANGED <<variant, apiKey, prompt, responseText, loading, allowMajor,
                   lastRequestWordCount, run, inflight, split,
                   filename, model, uploads>>

handlePasteTextChange == PasteFrom(Docs)

\* handleClear without setFilename("")
handleClearKeepsFilename ==
    /\ rawText' = EmptyText
    /\ pages' = 0
    /\ prompt' = EmptyText
    /\ responseText' = EmptyText
    /\ error' = NoError
    /\ allowMajor' = FALSE
    /\ lastRequestWordCount' = 0
    /\ Touch("handleClear")
    /\ UNCHANGED <<variant, apiKey, loading, run, inflight, split, model, uploads,
                   filename>>

\* the Clear button: eight setters; apiKey, model, loading and view are not among them
handleClear ==
    /\ rawText' = EmptyText
    /\ filename' = NoFile
    /\ pages' = 0
    /\ prompt' = EmptyText
    /\ responseText' = EmptyText
    /\ error' = NoError
    /\ allowMajor' = FALSE
    /\ lastRequestWordCount' = 0
    /\ Touch("handleClear")
    /\ UNCHANGED <<variant, apiKey, loading, run, inflight, split, model, uploads>>

\* handleReviseOutput that resets the major-rewrite flag as well
handleReviseOutputResetsFlag ==
    IF responseText = EmptyText THEN UNCHANGED vars
    ELSE /\ Len(responseText) <= MaxReviseLen
         /\ rawText' = responseText
         /\ prompt' = EmptyText
         /\ responseText' = EmptyText
         /\ allowMajor' = FALSE
         /\ error' = IF variant = "A" THEN NoError ELSE error
         /\ Touch("handleReviseOutput")
         /\ UNCHANGED <<variant, apiKey, pages, loading,
                        lastRequestWordCount, run, inflight, split,
                        filename, model, uploads>>

\* the Revise button: returns at once when no result is displayed (in
\* part_000 the button is disabled then); pages is not among its setters
handleReviseOutput ==
    IF responseText = EmptyText THEN UNCHANGED vars
    ELSE /\ Len(responseText) <= MaxReviseLen
         /\ rawText' = responseText
         /\ prompt' = EmptyText
         /\ responseText' = EmptyText
         /\ error' = IF variant = "A" THEN NoError ELSE error
         /\ Touch("handleReviseOutput")
         /\ UNCHANGED <<variant, apiKey, pages, loading, allowMajor,
                        lastRequestWordCount, run, inflight, split,
                        filename, model, uploads>>

\* handleRun emptying the prompt box at the click
handleRunClearsPrompt ==
    /\ ~loading
    /\ Commit(handleRunStart(variant, Cells), "handleRun")
    /\ prompt' = EmptyText
    /\ UNCHANGED <<variant, apiKey, rawText, pages, allowMajor, split,
                   filename, model, uploads>>

\* the Run AI button, disabled while loading
handleRun ==
    /\ ~loading
    /\ Commit(handleRunStart(variant, Cells), "handleRun")
    /\ UNCHANGED <<variant, apiKey, rawText, pages, prompt, allowMajor, split,
                   filename, model, uploads>>

\* a pending fetch settles: a response with some content, or a failure
FetchReturnsFrom(O, E) ==
    /\ \E req \in inflight, ok \in BOOLEAN :
         \E content \in (IF ~ok THEN {NoText}
                         ELSE IF req.kind = "enhance" THEN E ELSE O) :
            Commit(fetchSettled(variant, Cells, req, ok, content), "fetch")
    /\ UNCHANGED <<variant, apiKey, rawText, pages, prompt, allowMajor, split,
                   filename, model, uploads>>

FetchReturns == FetchReturnsFrom(Outs, EnhancedPrompts)

Next ==
    \/ SetApiKey
    \/ SetPrompt
    \/ SetAllowMajor
    \/ handlePasteTextChange
    \/ handleClear
    \/ handleReviseOutput
    \/ handleRun
    \/ FetchReturns

Spec == Init /\ [][Next]_vars

----------------------------------------------------------------------------
(* The whole session: file uploads, the landing page's textarea and the    *)
(* model selector next to the handlers above.  handleFileChange is async:  *)
(* it runs to its first await, and each later step is the continuation     *)
(* after one awaited read (the document, one page, the text of a file).    *)
(* Reads of different uploads settle in any order.                         *)

\* the text items of page i of a PDF file: i items of one letter
PageItems(name, i) == [k \in 1..i |-> <<IF name = "f.pdf" THEN "a" ELSE "x">>]

\* numPages >= 15 for numPages > 15
PdfTooLargeInclusive(numPages) == numPages >= MaxPages

\* numPages > 15
PdfTooLarge(numPages) == numPages > MaxPages

\* text += strings.join(" ") + "\n\n"
AppendPage(text, items) == text \o Join(items, <<" ">>) \o <<"\n", "\n">>

Without(q, k) == SubSeq(q, 1, k - 1) \o SubSeq(q, k + 1, Len(q))

UploadEnds(k, outcome) ==
    /\ uploads' = Without(uploads, k)
    /\ last' = [op |-> "upload", outcome |-> "none", ended |-> IdleRun,
                up |-> [uploads[k] EXCEPT !.outcome = outcome]]

UploadGoesOn(k, u) ==
    /\ uploads' = [uploads EXCEPT ![k] = u]
    /\ last' = [op |-> "uploadStep", outcome |-> "none", ended |-> IdleRun, up |-> NoUpload]

\* the file input changes to a file of F: handleFileChange, and
\* handlePDFUpload for a PDF, up to the first await.  The record of a PDF
\* upload notes whether its setFilename and its setPages changed the cell.
FileChosen(free, F) ==
    /\ free
    /\ \E name \in F :
         LET u == [NoUpload EXCEPT
                      !.kind = IF name \in PdfNames THEN "pdf" ELSE "text",
                      !.name = name,
                      !.pc = IF name \in PdfNames THEN "load" ELSE "text",
                      !.renamed = name \in PdfNames /\ filename # name]
         IN  /\ uploads' = Append(uploads, u)
             /\ IF name \in PdfNames
                THEN error' = NoError /\ filename' = name
                ELSE UNCHANGED <<error, filename>>
    /\ last' = [op |-> "handleFileChange", outcome |-> "none", ended |-> IdleRun,
                up |-> NoUpload]
    /\ UNCHANGED <<variant, apiKey, rawText, pages, prompt, responseText, loading,
                   allowMajor, lastRequestWordCount, run, inflight, split, model>>

\* handlePDFUpload after getDocument settled: it threw, or the PDF has numPages pages
PdfLoaded ==
    /\ \E k \in 1..Len(uploads) :
         /\ uploads[k].pc = "load"
         /\ \E ok \in BOOLEAN, numPages \in 1..(MaxPages + 1) :
              IF ~ok
              THEN /\ numPages = 1
                   /\ error' = ErrPdfParse
                   /\ UploadEnds(k, "PdfParseError")
                   /\ UNCHANGED <<pages, rawText>>
              ELSE /\ pages' = numPages
                   /\ IF PdfTooLarge(numPages)
                      THEN /\ error' = ErrPdfTooLarge
                           /\ rawText' = EmptyText
                           /\ uploads' = Without(uploads, k)
                           /\ last' = [op |-> "upload", outcome |-> "none",
                                       ended |-> IdleRun,
                                       up |-> [uploads[k] EXCEPT
                                                 !.numPages = numPages,
                                                 !.repaged = pages # numPages,
                                                 !.outcome = "DocumentTooLarge"]]
                      ELSE /\ UploadGoesOn(k, [uploads[k] EXCEPT !.pc = "page",
                                                  !.numPages = numPages, !.i = 1,
                                                  !.repaged = pages # numPages])
                           /\ UNCHANGED <<error, rawText>>
    /\ UNCHANGED <<variant, apiKey, prompt, responseText, loading, allowMajor,
                   lastRequestWordCount, run, inflight, split, filename, model>>

\* handlePDFUpload after the read of page i settled: it threw, or the page's
\* items are appended and the loop goes on or ends with setRawText
PdfPageRead ==
    /\ \E k \in 1..Len(uploads) :
         /\ uploads[k].pc = "page"
         /\ \E ok \in BOOLEAN :
              LET u == uploads[k]
                  text == AppendPage(u.text, PageItems(u.name, u.i))
              IN  IF ~ok
                  THEN /\ error' = ErrPdfParse
                       /\ UploadEnds(k, "PdfParseError")
                       /\ UNCHANGED rawText
                  ELSE IF u.i < u.numPages
                  THEN /\ UploadGoesOn(k, [u EXCEPT !.text = text, !.i = @ + 1])
                       /\ UNCHANGED <<error, rawText>>
                  ELSE /\ rawText' = text
                       /\ uploads' = Without(uploads, k)
                       /\ last' = [op |-> "upload", outcome |-> "none", ended |-> IdleRun,
                                   up |-> [u EXCEPT !.text = text, !.i = @ + 1,
                                                    !.outcome = "Stored"]]
                       /\ UNCHANGED error
    /\ UNCHANGED <<variant, apiKey, pages, prompt, responseText, loading, allowMajor,
                   lastRequestWordCount, run, inflight, split, filename, model>>

\* handleFileChange for a file that is not a PDF, after file.text() settled
FileTextRead ==
    /\ \E k \in 1..Len(uploads) :
         /\ uploads[k].pc = "text"
         /\ \E text \in FileTexts :
              /\ pages' = approxPages(text)
              /\ IF approxPages(text) > MaxPages
                 THEN /\ error' = ErrFileTooLarge
                      /\ rawText' = EmptyText
                      /\ uploads' = Without(uploads, k)
                      /\ last' = [op |-> "upload", outcome |-> "none", ended |-> IdleRun,
                                  up |-> [uploads[k] EXCEPT !.text = text,
                                                            !.outcome = "DocumentTooLarge"]]
                      /\ UNCHANGED filename
                 ELSE /\ filename' = uploads[k].name
                      /\ rawText' = text
                      /\ uploads' = Without(uploads, k)
                      /\ last' = [op |-> "upload", outcome |-> "none", ended |-> IdleRun,
                                  up |-> [uploads[k] EXCEPT !.text = text,
                                                            !.outcome = "Stored"]]
                      /\ UNCHANGED error
    /\ UNCHANGED <<variant, apiKey, prompt, responseText, loading, allowMajor,
                   lastRequestWordCount, run, inflight, split, model>>

\* the textarea of the landing page changes to a text of D
LandingPasteFrom(D) ==
    /\ \E t \in D :
         /\ t # rawText
         /\ rawText' = t
         /\ pages' = approxPages(t)
         /\ Pasted("landingPaste", t)
    /\ UNCHANGED <<variant, apiKey, prompt, responseText, loading, error, allowMajor,
                   lastRequestWordCount, run, inflight, split, filename, model, uploads>>

\* the model selector, which only part_000 renders
SetModel ==
    /\ variant = "A"
    /\ \E v \in Models : v # model /\ model' = v
    /\ Touch("user")
    /\ UNCHANGED <<variant, apiKey, rawText, pages, prompt, responseText, loading,
                   error, allowMajor, lastRequestWordCount, run, inflight, split,
                   filename, uploads>>

\* nothing is in progress: no run and no upload
Quiet == ~loading /\ uploads = << >>

\* uploads that overlap, up to MaxUploads of them
handleFileChange == FileChosen(Len(uploads) < MaxUploads, PdfNames \cup TextNames)

\* one upload at a time, begun while no run is in flight
SessionFileChange == FileChosen(Quiet, SessionFiles)

SessionPaste == PasteFrom(SessionDocs)
LandingPaste == LandingPasteFrom(SessionDocs)
SessionFetchReturns == FetchReturnsFrom(SessionOuts, SessionEnhanced)

SessionNext ==
    \/ Quiet /\ SetApiKey
    \/ Quiet /\ SetPrompt
    \/ Quiet /\ SetAllowMajor
    \/ Quiet /\ SetModel
    \/ Quiet /\ SessionPaste
    \/ Quiet /\ LandingPaste
    \/ SessionFileChange
    \/ PdfLoaded
    \/ PdfPageRead
    \/ FileTextRead
    \/ handleClear
    \/ handleReviseOutput
    \/ handleRun
    \/ SessionFetchReturns

SessionSpec == Init /\ [][SessionNext]_vars

\* the run pipeline on a document of several chunks, under every
\* interleaving of the edits, when every fetch that was issued settles: the
\* endpoint answers or fails, it does not stay silent for ever
LivePaste == PasteFrom(LiveDocs)

LiveNext ==
    \/ SetApiKey
    \/ SetPrompt
    \/ LivePaste
    \/ handleClear
    \/ handleRun
    \/ SessionFetchReturns

LiveSpec == Init /\ [][LiveNext]_vars /\ WF_vars(SessionFetchReturns)

\* ingestion alone, with uploads that overlap
UploadNext ==
    \/ SessionPaste
    \/ LandingPaste
    \/ handleFileChange
    \/ PdfLoaded
    \/ PdfPageRead
    \/ FileTextRead
    \/ handleClear

UploadSpec == Init /\ [][UploadNext]_vars

\* PDF files chosen while earlier uploads are still being read: the file
\* input is never disabled, so a second handlePDFUpload can begin before the
\* first has stored its text
OverlapFileChange == FileChosen(Len(uploads) < MaxOverlap, PdfNames)

OverlapNext ==
    \/ OverlapFileChange
    \/ PdfLoaded
    \/ PdfPageRead

OverlapSpec == Init /\ [][OverlapNext]_vars

----------------------------------------------------------------------------
(* splitIntoChunksByWords as a function of its arguments: every text of up *)
(* to MaxSplitLen characters, every ceiling from 1 to MaxSplitWords.       *)

SplitInit ==
    /\ variant = "A"
    /\ apiKey = EmptyText
    /\ rawText = EmptyText
    /\ pages = 0
    /\ prompt = EmptyText
    /\ responseText = EmptyText
    /\ loading = FALSE
    /\ error = NoError
    /\ allowMajor = FALSE
    /\ lastRequestWordCount = 0
    /\ run = IdleRun
    /\ inflight = {}
    /\ last = [op |-> "init", outcome |-> "none", ended |-> IdleRun, up |-> NoUpload]
    /\ filename = NoFile
    /\ model = DefaultModel
    /\ uploads = << >>
    /\ \E t \in SeqsUpTo(Chars, MaxSplitLen), m \in 1..MaxSplitWords :
         split = [text |-> t, maxWordsPerChunk |-> m, chunks |-> << >>, done |-> FALSE]

CallSplit ==
    /\ ~split.done
    /\ split' = [split EXCEPT
                   !.chunks = splitIntoChunksByWords(split.text, split.maxWordsPerChunk),
                   !.done = TRUE]
    /\ UNCHANGED <<variant, apiKey, rawText, pages, prompt, responseText, loading,
                   error, allowMajor, lastRequestWordCount, run, inflight, last,
                   filename, model, uploads>>

SplitNext == CallSplit

SplitSpec == SplitInit /\ [][SplitNext]_vars

----------------------------------------------------------------------------
(* Properties.  A run's end is the state its last handler step leaves:     *)
(* last.outcome is then "Accepted", "Rejected" or "Failed" and last.ended  *)
(* is the run as it stood when handleRun returned.                         *)

RunOver == last.outcome \in {"Accepted", "Rejected", "Failed"}
Ended == last.ended

CeilDiv(a, b) == (a + b - 1) \div b

SegmentRequests(r) == SelectSeq(r.reqLog, LAMBDA q : q.kind = "segment")
SegmentResponses(r) == SelectSeq(r.respLog, LAMBDA a : a.seg > 0)

\* every chunk of the run was answered with a success
AllSucceeded(r) ==
    /\ r.chunks # << >>
    /\ Len(SegmentResponses(r)) = Len(r.chunks)
    /\ \A k \in 1..Len(r.chunks) :
         SegmentResponses(r)[k].ok /\ SegmentResponses(r)[k].seg = k

\* what the endpoint answered for segment k
AnswerFor(r, k) ==
    (CHOOSE a \in {SegmentResponses(r)[j] : j \in 1..Len(SegmentResponses(r))} :
        a.seg = k).content

\* the answers in segment order, joined by a blank line
CombinedAnswers(r) ==
    Join([k \in 1..Len(r.chunks) |-> AnswerFor(r, k)], <<"\n", "\n">>)

TooShort(outText, inText) == wordCount(outText) * 10 < wordCount(inText) * 9

RECURSIVE WordsOfAll(_)
WordsOfAll(cs) == IF cs = << >> THEN << >> ELSE Words(cs[1]) \o WordsOfAll(Tail(cs))

\* C1: a run with the major-rewrite flag false ends with the
\* ExcessiveShortening message and an empty responseText exactly when every
\* segment was answered and the recombined answers hold fewer than 90% of the
\* words of the whole input document; otherwise, when every segment was
\* answered, the recombined text becomes responseText.  At 1000 input words,
\* 899 output words are rejected, 900 and 901 accepted.
C1_GateAtNinetyPercent ==
    /\ (RunOver /\ ~Ended.allowMajorRewriteFlag) =>
          LET short == AllSucceeded(Ended)
                         /\ TooShort(CombinedAnswers(Ended), Ended.documentText)
          IN  /\ (error = ErrShortening /\ responseText = EmptyText) <=> short
              /\ (last.outcome = "Rejected") <=> short
              /\ (AllSucceeded(Ended) /\ ~short) =>
                    /\ last.outcome = "Accepted"
                    /\ responseText = CombinedAnswers(Ended)
    /\ ExcessiveShortening(FALSE, 899, 1000)
    /\ ~ExcessiveShortening(FALSE, 900, 1000)
    /\ ~ExcessiveShortening(FALSE, 901, 1000)

C1_Witness ==
    /\ RunOver /\ ~Ended.allowMajorRewriteFlag /\ AllSucceeded(Ended)
    /\ Len(Ended.chunks) = 2
    /\ wordCount(Ended.documentText) = 2
    /\ wordCount(CombinedAnswers(Ended)) = 1
    /\ error = ErrShortening /\ responseText = EmptyText

\* C2: with the major-rewrite flag true a run whose segment calls all succeed
\* is accepted whatever the word count of the recombined answers: the
\* ExcessiveShortening message is never set during the run and the recombined
\* text becomes responseText.
C2_FlagTrueAcceptsAnyLength ==
    /\ (run.pc # "idle" /\ run.allowMajorRewriteFlag) => error # ErrShortening
    /\ (RunOver /\ Ended.allowMajorRewriteFlag /\ AllSucceeded(Ended)) =>
          /\ last.outcome = "Accepted"
          /\ error # ErrShortening
          /\ responseText = CombinedAnswers(Ended)

C2_Witness ==
    /\ RunOver /\ Ended.allowMajorRewriteFlag /\ AllSucceeded(Ended)
    /\ wordCount(Ended.documentText) = 2
    /\ wordCount(CombinedAnswers(Ended)) = 0
    /\ last.outcome = "Accepted"

\* C3: a text holding at least one word and no more words than the ceiling
\* comes back from splitIntoChunksByWords as one segment equal to the text.
C3_OneSegmentWithinCeiling ==
    (split.done /\ 1 <= wordCount(split.text)
                /\ wordCount(split.text) <= split.maxWordsPerChunk)
        => split.chunks = <<split.text>>

\* C4: a text of W words with W above the ceiling M comes back as ceil(W / M)
\* segments, each but possibly the last holding exactly M words.
C4_SegmentCountAndSize ==
    (split.done /\ wordCount(split.text) > split.maxWordsPerChunk) =>
        /\ Len(split.chunks) = CeilDiv(wordCount(split.text), split.maxWordsPerChunk)
        /\ \A k \in 1..(Len(split.chunks) - 1) :
             wordCount(split.chunks[k]) = split.maxWordsPerChunk

\* C5: for a text with more words than the ceiling, the words of the returned
\* segments, taken in segment order, are exactly the words of the text.
C5_WordsRoundTrip ==
    (split.done /\ wordCount(split.text) > split.maxWordsPerChunk) =>
        WordsOfAll(split.chunks) = Words(split.text)

C5_Witness ==
    /\ split.done
    /\ wordCount(split.text) = 3 /\ split.maxWordsPerChunk = 2
    /\ split.text[1] \in WS
    /\ Len(split.chunks) = 2
    /\ WordsOfAll(split.chunks) = <<<<"a">>, <<"a">>, <<"a">>>>

\* the failed segment responses of a run
FailedSegments(r) ==
    {SegmentResponses(r)[j].seg : j \in {i \in 1..Len(SegmentResponses(r)) :
                                            ~SegmentResponses(r)[i].ok}}

\* C6: when the call for segment k fails the run ends at once, Failed, with
\* the endpoint error shown; the requests sent are those of segments 1..k and
\* no other, and responseText is empty.
C6_FailedCallAbortsRun ==
    /\ FailedSegments(run) = {}
    /\ (RunOver /\ FailedSegments(Ended) # {}) =>
          \E k \in 1..Len(Ended.chunks) :
             /\ FailedSegments(Ended) = {k}
             /\ last.outcome = "Failed"
             /\ error = ErrEndpoint
             /\ responseText = EmptyText
             /\ Len(SegmentRequests(Ended)) = k
             /\ \A j \in 1..k : SegmentRequests(Ended)[j].seg = j
             /\ inflight = {}
             /\ run.pc = "idle"

C6_Witness ==
    /\ RunOver
    /\ FailedSegments(Ended) = {2}
    /\ Len(Ended.chunks) = 3
    /\ Ended.outputs = <<<<"a">>>>
    /\ error = ErrEndpoint /\ responseText = EmptyText

SequentialLog(r) ==
    LET q == SegmentRequests(r)
        a == SegmentResponses(r)
    IN  /\ \A j \in 1..Len(q) : q[j].seg = j
        /\ \A j \in 1..Len(a) : a[j].seg = j
        /\ Len(a) <= Len(q)
        /\ Len(q) <= Len(a) + 1
        /\ Len(r.reqLog) <= Len(r.respLog) + 1

\* C7: the segment requests of a run go out in the order 1, 2, 3, ..., the
\* request for segment i+1 only after the response for segment i is in, and
\* at most one completion request is in flight at any moment.
C7_SequentialDispatch ==
    /\ Cardinality(inflight) <= 1
    /\ SequentialLog(run)
    /\ SequentialLog(Ended)
    /\ inflight # {} => Len(run.reqLog) = Len(run.respLog) + 1

C7_Witness ==
    /\ Len(run.chunks) = 3
    /\ Len(SegmentRequests(run)) = 2
    /\ Len(SegmentResponses(run)) = 1
    /\ Cardinality(inflight) = 1

\* C8: when every segment call of a run succeeds, the recombined result is
\* the answers to segments 1..n in that order with a blank line between two
\* neighbours; answer k is the answer to the request that carried chunk k.
C8_RecombinationInOrder ==
    (RunOver /\ AllSucceeded(Ended)) =>
        /\ Ended.out = CombinedAnswers(Ended)
        /\ Len(Ended.outputs) = Len(Ended.chunks)
        /\ \A k \in 1..Len(Ended.chunks) :
             /\ Ended.outputs[k] = AnswerFor(Ended, k)
             /\ SegmentRequests(Ended)[k].documentText = Ended.chunks[k]
        /\ last.outcome = "Accepted" => responseText = CombinedAnswers(Ended)

C8_Witness ==
    /\ RunOver /\ AllSucceeded(Ended)
    /\ Len(Ended.chunks) = 2
    /\ AnswerFor(Ended, 1) = <<"a", " ", "a">>
    /\ AnswerFor(Ended, 2) = <<"a">>
    /\ responseText = <<"a", " ", "a", "\n", "\n", "a">>

SegmentShort(r, k) == TooShort(AnswerFor(r, k), r.chunks[k])

\* C9: the length check is made once per run, after the last answer, on the
\* recombined answers against the whole document: with the flag false, a run
\* with a shortened segment whose aggregate keeps 90% of the document's words
\* is accepted, and a run with an unshortened segment whose aggregate falls
\* below 90% is rejected.
C9_GateOnceOnAggregate ==
    /\ run.gateEvals = 0
    /\ RunOver => Ended.gateEvals = (IF AllSucceeded(Ended) THEN 1 ELSE 0)
    /\ (RunOver /\ ~Ended.allowMajorRewriteFlag /\ AllSucceeded(Ended)) =>
          LET short == TooShort(CombinedAnswers(Ended), Ended.documentText)
              n == Len(Ended.chunks)
          IN  /\ ((\E k \in 1..n : SegmentShort(Ended, k)) /\ ~short) =>
                    /\ last.outcome = "Accepted"
                    /\ responseText = CombinedAnswers(Ended)
                    /\ error # ErrShortening
              /\ ((\E k \in 1..n : ~SegmentShort(Ended, k)) /\ short) =>
                    /\ last.outcome = "Rejected"
                    /\ error = ErrShortening
                    /\ responseText = EmptyText

C9_Witness ==
    /\ RunOver /\ ~Ended.allowMajorRewriteFlag /\ AllSucceeded(Ended)
    /\ Ended.chunks = <<<<"a">>, <<"a">>>>
    /\ SegmentShort(Ended, 1)
    /\ ~TooShort(CombinedAnswers(Ended), Ended.documentText)
    /\ last.outcome = "Accepted" /\ responseText # EmptyText

C9_WitnessAggregateShort ==
    /\ RunOver /\ ~Ended.allowMajorRewriteFlag /\ AllSucceeded(Ended)
    /\ Ended.chunks = <<<<"a">>, <<"a">>>>
    /\ ~SegmentShort(Ended, 1)
    /\ TooShort(CombinedAnswers(Ended), Ended.documentText)
    /\ last.outcome = "Rejected" /\ error = ErrShortening

\* handleRun has just run on an empty prompt or an empty document
EmptyInputRun == last.op = "handleRun" /\ (prompt = EmptyText \/ rawText = EmptyText)

\* C10 as claimed: a run started with an empty prompt or with no document
\* text ends Failed with an EmptyInput message and sends no request.
C10_EmptyInputMessage ==
    EmptyInputRun =>
        /\ last.outcome = "Failed"
        /\ error \in EmptyInput
        /\ Ended.reqLog = << >>
        /\ inflight = {}

\* C10 as amended: such a run ends Failed and sends no request; the message
\* is an EmptyInput message, except that the handler that checks the page
\* count before the prompt (variant A) answers a non-empty document of more
\* than MaxPages pages with the too-many-pages message.
C10_EmptyInputOrTooLarge ==
    EmptyInputRun =>
        /\ last.outcome = "Failed"
        /\ Ended.reqLog = << >>
        /\ inflight = {}
        /\ ~loading
        /\ responseText = EmptyText
        /\ IF variant = "A" /\ rawText # EmptyText /\ pages > MaxPages
           THEN error = ErrTooLarge
           ELSE error \in EmptyInput

C10_Witness ==
    /\ EmptyInputRun
    /\ prompt = EmptyText /\ rawText # EmptyText
    /\ apiKey # EmptyText /\ allowMajor
    /\ error = ErrNoPrompt

----------------------------------------------------------------------------
\* C11: a run started without an API key on a document and a prompt that pass
\* validation sends no request, not even the prompt enhancement: handleRun
\* returns at once with the missing-key message, responseText is empty and
\* loading was never set.
C11_NoKeyNoRequest ==
    (/\ last.op = "handleRun"
     /\ apiKey = EmptyText
     /\ Validate(variant, rawText, pages, prompt) = NoError)
    => /\ last.outcome = "Failed"
       /\ Ended.reqLog = << >>
       /\ inflight = {}
       /\ error = ErrMissingKey
       /\ responseText = EmptyText
       /\ ~loading
       /\ run = IdleRun

C11_Witness ==
    /\ variant = "B"
    /\ last.op = "handleRun"
    /\ apiKey = EmptyText
    /\ Validate(variant, rawText, pages, prompt) = NoError
    /\ Len(Ended.chunks) = 2
    /\ error = ErrMissingKey

----------------------------------------------------------------------------
(* Uploads.  An upload's end is the state its last step leaves: last.op is *)
(* "upload" and last.up is the invocation as it stood when it returned.    *)

UploadOver == last.op = "upload"
PdfOver == UploadOver /\ last.up.kind = "pdf"

\* the texts of pages 1..n of a PDF file, each followed by a blank line
RECURSIVE PdfText(_, _)
PdfText(name, n) ==
    IF n = 0 THEN EmptyText
    ELSE PdfText(name, n - 1) \o Join(PageItems(name, n), <<" ">>) \o <<"\n", "\n">>

\* C12: a PDF upload that reports more than MaxPages pages ends with the
\* too-many-pages message, reads no page and leaves the held text empty; a
\* PDF of up to MaxPages pages, exactly MaxPages included, whose pages can
\* all be read is stored as the texts of pages 1..numPages in that order.
C12_PdfPageLimit ==
    PdfOver =>
       /\ last.up.numPages > MaxPages =>
             /\ last.up.outcome = "DocumentTooLarge"
             /\ error = ErrPdfTooLarge
             /\ last.up.i = 0
             /\ last.up.text = EmptyText
             /\ rawText = EmptyText
       /\ (last.up.numPages \in 1..MaxPages /\ last.up.outcome # "PdfParseError") =>
             /\ last.up.outcome = "Stored"
             /\ last.up.i = last.up.numPages + 1
             /\ rawText = PdfText(last.up.name, last.up.numPages)
       /\ last.up.outcome = "DocumentTooLarge" => last.up.numPages > MaxPages

C12_Witness ==
    /\ PdfOver
    /\ last.up.numPages = MaxPages + 1
    /\ last.up.outcome = "DocumentTooLarge"
    /\ rawText = EmptyText

C12_WitnessAccepted ==
    /\ PdfOver
    /\ last.up.numPages = MaxPages
    /\ last.up.outcome = "Stored"
    /\ rawText = PdfText(last.up.name, MaxPages)
    /\ Len(uploads) = 1

DocumentTooLarge == {ErrTooLarge, ErrPdfTooLarge, ErrFileTooLarge, ErrPasteTooLarge}

TextIngested == last.up.kind \in {"text", "paste"}
Estimate(t) == CeilDiv(Len(t), PageChars)

\* C13 as stated: after a file that is not a PDF was read, or a text was
\* pasted, the page count is the ceiling of length / PageChars, and when it
\* exceeds MaxPages the too-large message is shown and the held text is empty.
C13_OversizeTextDiscarded ==
    TextIngested =>
       /\ pages = Estimate(last.up.text)
       /\ Estimate(last.up.text) > MaxPages =>
             error \in DocumentTooLarge /\ rawText = EmptyText

\* C13, amended: the page count is the ceiling of length / PageChars on all
\* three paths.  A file above MaxPages pages is discarded with the message
\* and the held text emptied; a text pasted in the editor is kept as the held
\* text whatever its size, with the message when it is above MaxPages pages
\* and no message otherwise; a text pasted on the landing page is kept too.
C13_OversizeFileDiscardedPasteKept ==
    TextIngested =>
       /\ pages = Estimate(last.up.text)
       /\ last.up.kind = "text" =>
             IF Estimate(last.up.text) > MaxPages
             THEN error = ErrFileTooLarge /\ rawText = EmptyText
             ELSE rawText = last.up.text /\ filename = last.up.name
       /\ last.op = "handlePasteTextChange" =>
             /\ rawText = last.up.text
             /\ error = IF Estimate(last.up.text) > MaxPages
                        THEN ErrPasteTooLarge ELSE NoError
       /\ last.op = "landingPaste" => rawText = last.up.text

C13_Witness ==
    /\ last.op = "handlePasteTextChange"
    /\ Estimate(last.up.text) = MaxPages + 1
    /\ rawText = last.up.text
    /\ error = ErrPasteTooLarge
    /\ pages = MaxPages + 1

C13_WitnessFile ==
    /\ UploadOver
    /\ last.up.kind = "text"
    /\ Estimate(last.up.text) > MaxPages
    /\ rawText = EmptyText
    /\ error = ErrFileTooLarge

----------------------------------------------------------------------------
RunFailed == RunOver /\ last.outcome \in {"Failed", "Rejected"}
RunErrors == {ErrNoDocument, ErrTooLarge, ErrNoPrompt, ErrMissingKey, ErrEndpoint,
              ErrShortening}

\* C14 as stated: a run that ends in an error leaves the result that was
\* displayed when it began: when there was one, there still is one.
C14_ErrorKeepsPreviousResult ==
    (RunFailed /\ Ended.hadResult) => responseText # EmptyText

\* C14, amended: a run that ends in an error ends with its message displayed
\* and with no result displayed: the result of an earlier run was cleared
\* when the run began and is not restored.
C14_ErrorLeavesNoResult ==
    RunFailed => responseText = EmptyText /\ error \in RunErrors

C14_Witness ==
    /\ RunFailed
    /\ Ended.hadResult
    /\ last.outcome = "Rejected"
    /\ responseText = EmptyText
    /\ error = ErrShortening

----------------------------------------------------------------------------
\* C15: when a PDF upload fails to parse (the load or the read of a page
\* throws) the parse message is set, the held text is empty, and the upload
\* has changed neither the held file name nor the held page count.
C15_ParseFailureClearsText ==
    (PdfOver /\ last.up.outcome = "PdfParseError") =>
       /\ error = ErrPdfParse
       /\ rawText = EmptyText
       /\ ~last.up.renamed
       /\ ~last.up.repaged

\* a text was held, the upload of another file failed on a page, and the
\* text is still held under the failed file's name and page count
C15_FailedUploadKeepsOldText ==
    /\ PdfOver
    /\ last.up.outcome = "PdfParseError"
    /\ last.up.renamed
    /\ last.up.repaged
    /\ rawText = <<"a">>
    /\ filename = last.up.name
    /\ pages = last.up.numPages

----------------------------------------------------------------------------
EnhanceResponses(r) == SelectSeq(r.respLog, LAMBDA a : a.seg = 0)

\* the enhancement call of run r was answered with a failure or with nothing
EnhanceFellBack(r) ==
    /\ EnhanceResponses(r) # << >>
    /\ ~EnhanceResponses(r)[1].ok \/ EnhanceResponses(r)[1].content = EmptyText

\* C16: in the component with prompt enhancement, when the enhancement call
\* fails or returns an empty text, every segment request carries the user's
\* own prompt, and the run goes on: when every segment is answered and the
\* recombined text passes the length gate the run ends accepted, with the
\* recombined text displayed and no message of the run (the only message
\* that can be displayed is that of a text pasted while the run was going).
C16_EnhancementFallsBack ==
    variant = "B" =>
       /\ \A r \in {run, Ended} :
             EnhanceFellBack(r) =>
                \A k \in 1..Len(SegmentRequests(r)) :
                   SegmentRequests(r)[k].task = r.userPrompt
       /\ (/\ RunOver
           /\ EnhanceFellBack(Ended)
           /\ AllSucceeded(Ended)
           /\ \/ Ended.allowMajorRewriteFlag
              \/ ~TooShort(CombinedAnswers(Ended), Ended.documentText))
          => /\ last.outcome = "Accepted"
             /\ responseText = CombinedAnswers(Ended)
             /\ error \in {NoError, ErrPasteTooLarge}

C16_Witness ==
    /\ variant = "B"
    /\ RunOver
    /\ EnhanceFellBack(Ended)
    /\ ~EnhanceResponses(Ended)[1].ok
    /\ Len(Ended.chunks) = 2
    /\ last.outcome = "Accepted"
    /\ responseText = CombinedAnswers(Ended)
    /\ responseText # EmptyText
    /\ error = NoError
    /\ ~Ended.allowMajorRewriteFlag

----------------------------------------------------------------------------
RunInFlight == run.pc # "idle"

\* C17: from the moment handleRun has passed validation and sent its first
\* request until the run has ended, in every state in which an event can be
\* handled (during the enhancement call, during each segment call, and so
\* between any two calls) loading is true and a request is pending, so the
\* Run button is disabled and no second run can start; and when no run is in
\* flight nothing is pending and loading is false.
C17_NoSecondRunInFlight ==
    /\ RunInFlight => loading /\ inflight # {} /\ ~ENABLED handleRun
    /\ ~RunInFlight => ~loading /\ inflight = {}
    /\ Cardinality(inflight) <= 1

C17_Witness ==
    /\ variant = "B"
    /\ RunInFlight
    /\ run.pc = "segment"
    /\ Len(run.chunks) = 3
    /\ run.i = 2
    /\ Len(run.respLog) = 2
    /\ loading
    /\ ~ENABLED handleRun

C17_WitnessEnhancing ==
    /\ variant = "B"
    /\ run.pc = "enhance"
    /\ loading
    /\ rawText = EmptyText

----------------------------------------------------------------------------
\* C18 as stated: after handleClear every cell of the session has its value
\* of the start of the app: document text, file name, page count, prompt,
\* result, error, major-rewrite flag, last request word count, API key,
\* model and loading.
C18_ClearResetsEverything ==
    last.op = "handleClear" =>
       /\ rawText = EmptyText
       /\ filename = NoFile
       /\ pages = 0
       /\ prompt = EmptyText
       /\ responseText = EmptyText
       /\ error = NoError
       /\ allowMajor = FALSE
       /\ lastRequestWordCount = 0
       /\ apiKey = EmptyText
       /\ model = DefaultModel
       /\ loading = FALSE

\* C18, amended: handleClear gives document text, file name, page count,
\* prompt, result, error, major-rewrite flag and last request word count
\* their values of the start of the app, and leaves the API key, the model
\* and loading as they were.
C18_ClearResetsDocumentAndRun ==
    [][handleClear =>
          /\ rawText' = EmptyText
          /\ filename' = NoFile
          /\ pages' = 0
          /\ prompt' = EmptyText
          /\ responseText' = EmptyText
          /\ error' = NoError
          /\ allowMajor' = FALSE
          /\ lastRequestWordCount' = 0
          /\ apiKey' = apiKey
          /\ model' = model
          /\ loading' = loading]_vars

C18_Witness ==
    /\ last.op = "handleClear"
    /\ rawText = EmptyText
    /\ filename = NoFile
    /\ error = NoError
    /\ apiKey # EmptyText
    /\ model # DefaultModel
    /\ loading
    /\ uploads # << >>

----------------------------------------------------------------------------
C19_WitnessRevised ==
    /\ last.op = "handleReviseOutput"
    /\ wordCount(rawText) = 2
    /\ prompt = EmptyText
    /\ responseText = EmptyText
    /\ allowMajor

----------------------------------------------------------------------------
\* the responses of run r so far are those of segments 1..n, all successful
AnsweredUpTo(r, n) ==
    /\ Len(SegmentResponses(r)) = n
    /\ \A k \in 1..n : SegmentResponses(r)[k].ok /\ SegmentResponses(r)[k].seg = k

\* C20: a run goes from idle through the dispatch of segments 1..n, one at a
\* time and each after the success of the one before, to the gate and then
\* to accepted, rejected or failed.  The gate is evaluated once, after all n
\* responses were received and recombined: a rejection for excessive
\* shortening (and an acceptance) follows n successful responses, never a
\* failed call.  A run that failed did so in validation, for want of a key
\* or on the failed response of the segment in flight, and the gate was
\* never evaluated in it.
C20_RunStateMachine ==
    /\ run.pc \in {"idle", "enhance", "segment"}
    /\ run.pc = "enhance" =>
          variant = "B" /\ run.chunks = << >> /\ run.respLog = << >> /\ run.gateEvals = 0
    /\ run.pc = "segment" =>
          /\ run.i \in 1..Len(run.chunks)
          /\ AnsweredUpTo(run, run.i - 1)
          /\ run.gateEvals = 0
    /\ RunOver =>
          /\ last.outcome \in {"Accepted", "Rejected"} =>
                /\ AllSucceeded(Ended)
                /\ Ended.gateEvals = 1
                /\ Ended.out = (IF variant = "A" /\ Len(Ended.chunks) = 1
                                THEN AnswerFor(Ended, 1) ELSE CombinedAnswers(Ended))
          /\ last.outcome = "Rejected" <=> error = ErrShortening
          /\ last.outcome = "Failed" =>
                /\ Ended.gateEvals = 0
                /\ \/ Ended.reqLog = << >>
                   \/ /\ Ended.pc = "segment"
                      /\ Len(SegmentResponses(Ended)) = Ended.i
                      /\ ~SegmentResponses(Ended)[Ended.i].ok
                      /\ \A k \in 1..(Ended.i - 1) : SegmentResponses(Ended)[k].ok

\* rejected after the last of three successful responses
C20_Witness ==
    /\ RunOver
    /\ last.outcome = "Rejected"
    /\ Len(Ended.chunks) = 3
    /\ AllSucceeded(Ended)
    /\ Ended.gateEvals = 1
    /\ error = ErrShortening

\* failed in the middle of the dispatch
C20_WitnessFailedInDispatch ==
    /\ RunOver
    /\ last.outcome = "Failed"
    /\ Len(Ended.chunks) = 3
    /\ Ended.i = 2
    /\ Ended.gateEvals = 0

----------------------------------------------------------------------------
\* C21: when every fetch that was issued settles, a run that is in flight
\* comes to its end: handleRun returns (accepted, rejected or failed), no
\* run is in flight any more and loading is false.
C21_RunsTerminate == RunInFlight ~> (~RunInFlight /\ ~loading /\ RunOver)

\* a run of two segments that came to its end
C21_Witness ==
    /\ RunOver
    /\ Len(Ended.chunks) = 2
    /\ Len(SegmentResponses(Ended)) = 2
    /\ ~RunInFlight
    /\ ~loading

\* C22 as stated: a run started while the page count held is above the limit
\* ends Failed with an error and without a request, in either component.
C22_NoDispatchOverPageLimit ==
    (last.op = "handleRun" /\ pages > MaxPages) =>
        /\ last.outcome = "Failed"
        /\ error # NoError
        /\ Ended.reqLog = << >>
        /\ inflight = {}

\* component B has sent a request for a document above the page limit
C22_DispatchedOverPageLimit ==
    /\ variant = "B"
    /\ last.op = "handleRun"
    /\ pages > MaxPages
    /\ inflight # {}

\* C23 as stated: for every non-empty text and every ceiling from 1 up, each
\* segment splitIntoChunksByWords returns holds at least one word.
C23_EverySegmentHoldsAWord ==
    (split.done /\ split.text # EmptyText) =>
        \A k \in 1..Len(split.chunks) : wordCount(split.chunks[k]) >= 1

\* a text that holds a word and ends in whitespace came back with an empty
\* segment
C23_EmptySegmentAfterWord ==
    /\ split.done
    /\ wordCount(split.text) >= 1
    /\ \E k \in 1..Len(split.chunks) : split.chunks[k] = EmptyText

\* a run has sent a request for an empty segment
C23_RequestForEmptySegment ==
    \E k \in 1..Len(run.reqLog) :
        run.reqLog[k].kind = "segment" /\ run.reqLog[k].documentText = EmptyText

\* C24 as stated: a run started on a held text without a word (empty, or
\* only whitespace) ends Failed with an EmptyInput message and sends no
\* request.
C24_NoRequestForZeroWords ==
    (last.op = "handleRun" /\ wordCount(rawText) = 0) =>
        /\ last.outcome = "Failed"
        /\ error \in EmptyInput
        /\ Ended.reqLog = << >>
        /\ inflight = {}

\* a request is in flight for a run on a text of whitespace only
C24_RequestForBlankDocument ==
    /\ RunInFlight
    /\ run.documentText # EmptyText
    /\ wordCount(run.documentText) = 0
    /\ \E req \in inflight : req.kind = "segment"

\* C25 as stated, for the step that follows a Clear: when the next thing
\* that happens after handleClear is the settlement of a fetch of the run
\* that was in flight, the result and the error are still empty after it.
C25_ClearedSessionStaysEmpty ==
    [][(last.op = "handleClear" /\ last'.op = "fetch")
          => (responseText' = EmptyText /\ error' = NoError)]_vars

\* the run that was in flight when Clear was pressed has ended Accepted and
\* its result stands in the cleared session
C25_StaleResultAfterClear ==
    /\ last.op = "fetch"
    /\ last.outcome = "Accepted"
    /\ rawText = EmptyText
    /\ prompt = EmptyText
    /\ Ended.documentText # EmptyText
    /\ responseText # EmptyText

\* the page counts a held text can have by the rules of ingestion: 0 for no
\* text, the estimate from its length, the number of pages of the PDF file it
\* was read from
PageCountsOf(t) ==
    IF t = EmptyText THEN {0}
    ELSE {Estimate(t)}
         \cup {n \in 1..MaxPages : \E name \in PdfNames : t = PdfText(name, n)}

\* C26 as stated: whenever no upload is in progress, pages is the page count
\* of the held text: 0 for no text, the estimate for a pasted text or a text
\* file, the reported number of pages for the text of a PDF file.
C26_PagesMatchHeldText ==
    uploads = << >> => pages \in PageCountsOf(rawText)

\* revise made a result the held text under the page count of the old text
C26_StalePagesAfterRevise ==
    /\ last.op = "handleReviseOutput"
    /\ uploads = << >>
    /\ rawText # EmptyText
    /\ pages \notin PageCountsOf(rawText)

\* a file above the limit was discarded and its page count is held with no
\* text
C26_PagesOfDiscardedFile ==
    /\ UploadOver
    /\ uploads = << >>
    /\ rawText = EmptyText
    /\ pages > MaxPages

\* C27 as stated: when PDF uploads overlapped and all have completed without
\* a failure or a refusal since the last file was chosen, the filename, the
\* page count and the text held belong to one file, the one chosen last: the
\* text is that of pages 1..pages of the file named.
C27_OverlappingUploadsAgree ==
    (uploads = << >> /\ PdfOver /\ error = NoError) =>
        rawText = PdfText(filename, pages)

\* g.pdf was chosen while f.pdf was being read and f.pdf ended last: the
\* name held is g.pdf, the text and the page count are those of f.pdf
C27_MixedAfterOverlap ==
    /\ uploads = << >>
    /\ PdfOver
    /\ error = NoError
    /\ last.up.name = "f.pdf"
    /\ last.up.outcome = "Stored"
    /\ filename = "g.pdf"
    /\ rawText = PdfText("f.pdf", pages)

\* the run in flight, or else the run that has just ended
CurrentRun == IF RunInFlight THEN run ELSE Ended

\* C28: a run works on the document, the instruction and the flag it was
\* started with, whatever the user edits or toggles meanwhile.  Right after
\* the click the run holds the cells' values; every segment request carries
\* the run's flag, the run's instruction (as enhanced) and a chunk of the
\* run's document; and the gate rejects exactly when the run's flag is off
\* and the output has fewer than 90% of the words of the run's document.
C28_RunInputsFixedAtStart ==
    LET r == CurrentRun IN
    /\ (last.op = "handleRun" /\ RunInFlight) =>
          /\ r.documentText = rawText
          /\ r.userPrompt = prompt
          /\ r.allowMajorRewriteFlag = allowMajor
    /\ (RunInFlight \/ RunOver) =>
          /\ \A k \in 1..Len(SegmentRequests(r)) :
                LET q == SegmentRequests(r)[k] IN
                /\ q.allow = r.allowMajorRewriteFlag
                /\ q.task = r.enhancedPrompt
                /\ r.chunks = splitIntoChunksByWords(r.documentText, ChunkWords)
                /\ q.documentText = r.chunks[q.seg]
          /\ r.enhancedPrompt \in {EmptyText, r.userPrompt} \cup EnhancedPrompts
    /\ (RunOver /\ Ended.gateEvals > 0) =>
          /\ Ended.gateEvals = 1
          /\ last.outcome = "Rejected" <=>
                ExcessiveShortening(Ended.allowMajorRewriteFlag,
                                    wordCount(Ended.out),
                                    wordCount(Ended.documentText))

\* the gate rejected a run of two segments on the flag and the document of
\* the click, after the user had switched the flag on and replaced the text
C28_Witness ==
    /\ RunOver
    /\ last.outcome = "Rejected"
    /\ Len(Ended.chunks) >= 2
    /\ ~Ended.allowMajorRewriteFlag
    /\ allowMajor
    /\ rawText # Ended.documentText
    /\ prompt # Ended.userPrompt

\* C29: the steps of a run (the click on Run and every settlement of one of
\* its fetches, whatever the outcome) leave the held text, the filename, the
\* page count, the prompt, the flag, the API key and the model as they were.
C29_RunFrame ==
    [][last'.op \in {"handleRun", "fetch"} =>
          UNCHANGED <<rawText, filename, pages, prompt, allowMajor, apiKey, model>>]_vars

\* a run on an uploaded file has ended Accepted with the flag on and another
\* model selected, and wrote its cells
C29_Witness ==
    /\ RunOver
    /\ last.op = "fetch"
    /\ last.outcome = "Accepted"
    /\ responseText # EmptyText
    /\ lastRequestWordCount > 0
    /\ rawText = Ended.documentText
    /\ filename # NoFile
    /\ pages > 0
    /\ prompt # EmptyText
    /\ allowMajor
    /\ apiKey # EmptyText
    /\ model # DefaultModel

\* a run has failed and the session's inputs are those it was started on
C29_WitnessFailed ==
    /\ RunOver
    /\ last.op = "fetch"
    /\ last.outcome = "Failed"
    /\ error = ErrEndpoint
    /\ rawText = Ended.documentText
    /\ filename # NoFile
    /\ prompt = Ended.userPrompt

\* what a fetch can be answered with when the two components are compared:
\* a failure, an empty content, a word
CompareAnswers == {NoText, EmptyText, <<"a">>}

\* the end of the run that is in flight in m, in component v, when the
\* enhancement call is answered with enh and the call for segment k with
\* answers[k]
RECURSIVE RunToEnd(_, _, _, _)
RunToEnd(v, m, answers, enh) ==
    IF m.run.pc = "idle" THEN m
    ELSE LET req == CHOOSE q \in m.inflight : TRUE
             content == IF req.kind = "enhance" THEN enh ELSE answers[req.seg]
         IN  RunToEnd(v, fetchSettled(v, m, req, content # NoText, content),
                      answers, enh)

\* a run started now in component v, with those answers
RunFromHere(v, answers, enh) == RunToEnd(v, handleRunStart(v, Cells), answers, enh)

\* both components end such a run with the same result and both with or both
\* without an error
SameEnd(answers, enh) ==
    LET a == RunFromHere("A", answers, enh)
        b == RunFromHere("B", answers, enh)
    IN  /\ a.responseText = b.responseText
        /\ (a.error = NoError) <=> (b.error = NoError)

AnswersHere ==
    [1..Len(splitIntoChunksByWords(rawText, ChunkWords)) -> CompareAnswers]

\* C30 as stated: started on the same document, page count, prompt, flag and
\* key, and given the same answer for each segment call, the run of
\* component A and the run of component B end with the same responseText and
\* both with or both without an error.
C30_VariantsAgree ==
    (~loading /\ inflight = {}) =>
        \A answers \in AnswersHere, enh \in CompareAnswers : SameEnd(answers, enh)

\* the same, for the sessions whose page count is within the limit
C30_VariantsAgreeWithinLimit ==
    (~loading /\ inflight = {} /\ pages <= MaxPages) =>
        \A answers \in AnswersHere, enh \in CompareAnswers : SameEnd(answers, enh)

\* a session above the page limit with key and prompt, on which component A
\* refuses the run and component B ends it with a result
C30_OnlyBRuns ==
    /\ ~loading /\ inflight = {}
    /\ pages > MaxPages
    /\ \E answers \in AnswersHere :
         /\ RunFromHere("A", answers, <<"a">>).error = ErrTooLarge
         /\ RunFromHere("A", answers, <<"a">>).responseText = EmptyText
         /\ RunFromHere("B", answers, <<"a">>).error = NoError
         /\ RunFromHere("B", answers, <<"a">>).responseText # EmptyText

====
